---- MODULE Spec2Model ----
(***************************************************************************)
(* Velib ETL: the transform + load stage of src/src/traitement.py.         *)
(*                                                                         *)
(* Python values are tagged records, so that a field of a source record    *)
(* can hold a value of any type (null, string, number, list, mapping), as  *)
(* the JSON payload of the feed can.  A Python dict is a function from its *)
(* keys to tagged values; an absent key is a key outside its DOMAIN.       *)
(***************************************************************************)
EXTENDS Integers, Sequences, FiniteSets, TLC

\* ------------------------------------------------------------------ bounds
\* Longest records list of a snapshot explored.
MaxRecords == 3
\* Last value a clock shows.  A reading of a clock, datetime.utcnow() of the
\* process or NOW() of the database server, is an input: any value of Clock.
\* Nothing relates two readings: a wall clock can show the same value twice
\* and can be set back, and the process and the server each have their own.
MaxClock == 1
Clock == 0..MaxClock

\* ------------------------------------------------------------ Python values
PyNone == [t |-> "none"]
PyStr(s) == [t |-> "str", v |-> s]
PyInt(n) == [t |-> "int", v |-> n]
PyList(s) == [t |-> "list", v |-> s]
PyDict(f) == [t |-> "dict", v |-> f]

\* The empty dict {}.
EmptyMap == <<>>

\* bool(v) of Python: None, "", 0, [] and {} are falsy.
Truthy(v) ==
    CASE v.t = "none" -> FALSE
      [] v.t = "str" -> v.v # ""
      [] v.t = "int" -> v.v # 0
      [] v.t = "list" -> Len(v.v) > 0
      [] v.t = "dict" -> DOMAIN v.v # {}

\* d.get(k, default) on the keys of a dict.
Get(d, k, default) == IF k \in DOMAIN d THEN d[k] ELSE default

\* A datetime: ts is a value of a clock (negative: a date read from the
\* feed), tz is "naive" or the offset of an aware datetime.
DateTime(ts, tz) == [ts |-> ts, tz |-> tz]

\* datetime.utcnow() when the clock of the process shows `clock`: a naive
\* datetime.
UtcNow(clock) == DateTime(clock, "naive")

\* s.replace("+00:00", "") on the strings of the model.
StripUtcSuffix(s) ==
    CASE s = "2024-01-15T10:30:00+00:00" -> "2024-01-15T10:30:00"
      [] s = "2024-01-15T10:25:00+00:00" -> "2024-01-15T10:25:00"
      [] s = "+00:00" -> ""
      [] OTHER -> s

\* datetime.fromisoformat(s) on the strings of the model: ok = FALSE is the
\* ValueError of a string that is no ISO-8601 date.
FromIsoFormat(s) ==
    CASE s = "2024-01-15T10:30:00" -> [ok |-> TRUE, dt |-> DateTime(-1, "naive")]
      [] s = "2024-01-15T10:25:00" -> [ok |-> TRUE, dt |-> DateTime(-2, "naive")]
      [] s = "2024-01-15T10:30:00+00:00" -> [ok |-> TRUE, dt |-> DateTime(-1, "+00:00")]
      [] s = "2024-01-15T10:25:00+00:00" -> [ok |-> TRUE, dt |-> DateTime(-2, "+00:00")]
      [] s = "2024-01-15T12:30:00+02:00" -> [ok |-> TRUE, dt |-> DateTime(-1, "+02:00")]
      [] OTHER -> [ok |-> FALSE]

\* A parse that never reads the event time of the record.
MutParseLastReported(fields, clock) == UtcNow(clock)

\* Lines 127-134: a duedate that is absent or falsy, is not a string (it has
\* no .replace: the AttributeError is caught by the bare except) or does not
\* parse (ValueError, caught too) falls back to the clock.
ParseLastReported(fields, clock) ==
    LET duedate == Get(fields, "duedate", PyNone)
    IN  IF Truthy(duedate)
        THEN IF duedate.t = "str"
             THEN LET p == FromIsoFormat(StripUtcSuffix(duedate.v))
                  IN  IF p.ok THEN p.dt ELSE UtcNow(clock)
             ELSE UtcNow(clock)
        ELSE UtcNow(clock)

\* Lines 110-113: coords[0] and coords[1], each defaulted on its own.  len()
\* of None or of a number is a TypeError; a mapping has a len() but no key 0
\* or 1 (KeyError).  Strings are not among the coordinate values modelled.
CoordsRaises(coords) ==
    \/ coords.t \in {"none", "int"}
    \/ coords.t = "dict" /\ DOMAIN coords.v # {}

CoordsLen(coords) == IF coords.t = "list" THEN Len(coords.v) ELSE 0

\* Both coordinates defaulted as soon as the pair is short.
MutLatitude(coords) == IF CoordsLen(coords) > 1 THEN coords.v[1] ELSE PyInt(0)

Latitude(coords) == IF CoordsLen(coords) > 0 THEN coords.v[1] ELSE PyInt(0)

Longitude(coords) == IF CoordsLen(coords) > 1 THEN coords.v[2] ELSE PyInt(0)

\* The flag defaulted to the "yes" token.
MutParseFlag(fields, flag) == Get(fields, flag, PyStr("OUI")) = PyStr("OUI")

\* Lines 143-145: fields.get(flag, "NON") == "OUI".
ParseFlag(fields, flag) == Get(fields, flag, PyStr("NON")) = PyStr("OUI")

\* Lines 116-124: the station row of a record.
StationRow(fields, station_id, coords) ==
    [station_id |-> station_id,
     name |-> Get(fields, "name", PyStr("")),
     latitude |-> Latitude(coords),
     longitude |-> Longitude(coords),
     capacity |-> Get(fields, "capacity", PyInt(0)),
     arrondissement |-> Get(fields, "nom_arrondissement_communes", PyStr("")),
     code_insee |-> Get(fields, "code_insee_commune", PyStr(""))]

\* Lines 137-147: the availability row of a record.
AvailabilityRow(fields, station_id, clock) ==
    [station_id |-> station_id,
     num_bikes_available |-> Get(fields, "numbikesavailable", PyInt(0)),
     num_bikes_mechanical |-> Get(fields, "mechanical", PyInt(0)),
     num_bikes_ebike |-> Get(fields, "ebike", PyInt(0)),
     num_docks_available |-> Get(fields, "numdocksavailable", PyInt(0)),
     is_installed |-> ParseFlag(fields, "is_installed"),
     is_renting |-> ParseFlag(fields, "is_renting"),
     is_returning |-> ParseFlag(fields, "is_returning"),
     last_reported |-> ParseLastReported(fields, clock)]

\* Only a null station code skipped (`if station_id is None`).
MutSkipRecord(station_id) == station_id = PyNone

\* Lines 106-108: `if not station_id: continue`.
SkipRecord(station_id) == ~Truthy(station_id)

\* Line 149: `return stations, availability`, a 2-tuple.
TransformReturn(stations, availability) == <<stations, availability>>

\* Lines 104-147, the body of the loop for one record: the record is skipped
\* ("skip"), gives one row of each kind ("row"), or an exception leaves the
\* loop and the function ("raise").  record.get and fields.get exist on a
\* dict only.
TransformRecord(record, clock) ==
    IF record.t # "dict" THEN [kind |-> "raise", exc |-> "AttributeError"]
    ELSE LET fieldsV == Get(record.v, "fields", PyDict(EmptyMap))
         IN  IF fieldsV.t # "dict" THEN [kind |-> "raise", exc |-> "AttributeError"]
             ELSE LET fields == fieldsV.v
                      station_id == Get(fields, "stationcode", PyStr(""))
                      coords == Get(fields, "coordonnees_geo", PyList(<<PyInt(0), PyInt(0)>>))
                  IN  IF SkipRecord(station_id) THEN [kind |-> "skip"]
                      ELSE IF CoordsRaises(coords)
                           THEN [kind |-> "raise",
                                 exc |-> IF coords.t = "dict" THEN "KeyError" ELSE "TypeError"]
                           ELSE [kind |-> "row",
                                 station |-> StationRow(fields, station_id, coords),
                                 availability |-> AvailabilityRow(fields, station_id, clock)]

\* Lines 103-149: the loop over the records, in their order, from record i on.
\* datetime.utcnow() is read inside the loop (lines 132 and 134), once for
\* each record that needs it: clock[i] is what the clock shows when record i
\* reads it.
RECURSIVE TransformLoop(_, _, _, _, _)
TransformLoop(records, i, stations, availability, clock) ==
    IF i > Len(records)
    THEN [raised |-> FALSE, value |-> TransformReturn(stations, availability)]
    ELSE LET r == TransformRecord(records[i], clock[i])
         IN  CASE r.kind = "raise" -> [raised |-> TRUE, exc |-> r.exc]
               [] r.kind = "skip" ->
                    TransformLoop(records, i + 1, stations, availability, clock)
               [] r.kind = "row" ->
                    TransformLoop(records, i + 1, Append(stations, r.station),
                                  Append(availability, r.availability), clock)

\* Line 98: raw_data.get("data", {}).get("records", []).  The documents of
\* the model hold a mapping under "data" and a list under "records", when
\* they hold the key at all.
RecordsOf(raw_data) ==
    Get(Get(raw_data.v, "data", PyDict(EmptyMap)).v, "records", PyList(<<>>)).v

\* transform_data(raw_data), with the readings `clock` of the clock, one for
\* each record: the returned 2-tuple (stations, availability), or the
\* exception raised.  raw_data.get exists on a dict only.
TransformData(raw_data, clock) ==
    IF raw_data.t # "dict" THEN [raised |-> TRUE, exc |-> "AttributeError"]
    ELSE TransformLoop(RecordsOf(raw_data), 1, <<>>, <<>>, clock)

\* Record `record` reads the clock: what it gives depends on the reading.
ReadsClock(record) ==
    \E t \in Clock : TransformRecord(record, t) # TransformRecord(record, 0)

\* The readings of the clock of one call transform_data(raw_data): a value
\* of the clock for each record that reads it (0 stands in the place of a
\* record that does not).
RecordReadings(raw_data) ==
    IF raw_data.t # "dict" THEN {<<>>}
    ELSE LET records == RecordsOf(raw_data)
             shown == [i \in 1..Len(records) |->
                          IF ReadsClock(records[i]) THEN Clock ELSE {0}]
         IN  {clock \in [1..Len(records) -> Clock] :
                 \A i \in 1..Len(records) : clock[i] \in shown[i]}

\* ------------------------------------------------------ the relational sink
\* Rows of one statement built by psycopg2's execute_values, called at line
\* 181 and line 222 with its default page_size.
PageSize == 100

PageCount(values) == (Len(values) + PageSize - 1) \div PageSize

Page(values, p) ==
    SubSeq(values, (p - 1) * PageSize + 1,
           IF p * PageSize < Len(values) THEN p * PageSize ELSE Len(values))

\* No early return on an empty list.
MutNoRows(rows) == FALSE

\* Lines 154 and 193: `if not stations`, `if not availability`.
NoRows(rows) == rows = <<>>

\* Lines 184 and 225: count = len(values).
LoadCount(values) == Len(values)

\* The stations table holds a row of this station_id (its PRIMARY KEY, line 41).
HasStation(table, id) == \E r \in table : r.station_id = id

\* Lines 175-179: the values of the statement, built before it is sent, each
\* row with datetime.utcnow() of the process as its updated_at, read once for
\* each row (line 177): clock[i] is the reading of row i.
StationValues(stations, clock) ==
    [i \in 1..Len(stations) |->
        [station_id |-> stations[i].station_id, name |-> stations[i].name,
         latitude |-> stations[i].latitude, longitude |-> stations[i].longitude,
         capacity |-> stations[i].capacity,
         arrondissement |-> stations[i].arrondissement,
         code_insee |-> stations[i].code_insee, updated_at |-> clock[i]]]

\* The readings of the clock of one call with a list of n rows: a value of
\* the clock for each row, whatever the values of the other rows.
Readings(n) == [1..n -> Clock]

\* Lines 163-164 and 48: a station_id not in the table is inserted; created_at
\* takes its DEFAULT, NOW() of the transaction (t, the clock of the server),
\* updated_at the value passed (line 177, the clock of the process).
InsertStation(table, s, t) ==
    table \cup {[station_id |-> s.station_id, name |-> s.name,
                 latitude |-> s.latitude, longitude |-> s.longitude,
                 capacity |-> s.capacity, arrondissement |-> s.arrondissement,
                 code_insee |-> s.code_insee, created_at |-> t,
                 updated_at |-> s.updated_at]}

\* Lines 165-172: ON CONFLICT (station_id) DO UPDATE SET of the six mutable
\* columns and updated_at = NOW(); created_at is not in the SET list.
UpdateStation(table, s, t) ==
    {IF r.station_id = s.station_id
     THEN [r EXCEPT !.name = s.name, !.latitude = s.latitude,
                    !.longitude = s.longitude, !.capacity = s.capacity,
                    !.arrondissement = s.arrondissement,
                    !.code_insee = s.code_insee, !.updated_at = t]
     ELSE r : r \in table}

UpsertRow(table, s, t) ==
    IF HasStation(table, s.station_id) THEN UpdateStation(table, s, t)
    ELSE InsertStation(table, s, t)

\* One INSERT .. ON CONFLICT DO UPDATE may not touch a row twice: PostgreSQL
\* rejects a statement whose rows repeat a station_id.
RepeatsStation(page) ==
    \E i, j \in 1..Len(page) : i < j /\ page[i].station_id = page[j].station_id

\* One statement whose rows are of distinct stations: every row of the page
\* is upserted against the row of its station_id, the other rows of the table
\* stay.
UpsertPage(table, page, t) ==
    {r \in table : \A i \in 1..Len(page) : page[i].station_id # r.station_id}
    \cup UNION {UpsertRow({r \in table : r.station_id = page[i].station_id}, page[i], t) :
                  i \in 1..Len(page)}

\* Line 181: the statements of execute_values, page after page, inside one
\* transaction: its outcome, and the table as the transaction sees it (after
\* every page, or after the pages before the one that failed).
RECURSIVE UpsertPages(_, _, _, _)
UpsertPages(table, values, p, t) ==
    IF p > PageCount(values) THEN [ok |-> TRUE, table |-> table, executed |-> p - 1]
    ELSE IF RepeatsStation(Page(values, p))
         THEN [ok |-> FALSE, exc |-> "CardinalityViolation", executed |-> p,
               table |-> table]
         ELSE UpsertPages(UpsertPage(table, Page(values, p), t), values, p + 1, t)

\* Every statement committed as soon as it is executed.
MutUncommitted(table, working) == working

\* psycopg2 opens a transaction at the first statement; conn.commit() (lines
\* 182 and 223) is its only commit, so what a call wrote before it raised or
\* was terminated is discarded: the table stays as it was.
Uncommitted(table, working) == table

\* What a call of a sink operation did: returned `ret` or raised `exc`; the
\* connections it opened and closed, the statements it sent, whether it
\* committed, and the store it leaves.
Outcome(raised, exc, ret, opened, closed, executed, committed, db) ==
    [raised |-> raised, exc |-> exc, ret |-> ret, opened |-> opened,
     closed |-> closed, executed |-> executed, committed |-> committed, db |-> db]

\* The store: whether the tables exist, their rows, and the last value of the
\* sequence behind station_availability.id.
Store(tables, stations, availability, serial) ==
    [tables |-> tables, stations |-> stations, availability |-> availability,
     serial |-> serial]

\* load_stations_to_postgres(stations) on store db, with no other
\* transaction under way: clock holds the readings of datetime.utcnow() of
\* the rows, t is NOW() of the transaction.  fault is what
\* the environment does to the call: "none", "connect" (the connection is
\* refused, line 158), "execute" (the write fails, line 181), or the process
\* is terminated inside the call, after execute_values and before the commit
\* ("kill_before_commit") or after the commit and before the return
\* ("kill_after_commit").  An exception leaves the function before commit and
\* before close; a call that is terminated does not return either (raised,
\* with "Killed"), and its connection dies with the process.
LoadStationsToPostgres(rows, fault, clock, t, db) ==
    IF NoRows(rows) THEN Outcome(FALSE, "", 0, 0, 0, 0, FALSE, db)
    ELSE IF fault = "connect" THEN Outcome(TRUE, "OperationalError", 0, 0, 0, 0, FALSE, db)
    ELSE IF ~db.tables THEN Outcome(TRUE, "UndefinedTable", 0, 1, 0, 1, FALSE, db)
    ELSE IF fault = "execute" THEN Outcome(TRUE, "DatabaseError", 0, 1, 0, 1, FALSE, db)
    ELSE LET w == UpsertPages(db.stations, StationValues(rows, clock), 1, t)
         IN  IF ~w.ok
             THEN Outcome(TRUE, w.exc, 0, 1, 0, w.executed, FALSE,
                          [db EXCEPT !.stations = Uncommitted(@, w.table)])
             ELSE IF fault = "kill_before_commit"
             THEN Outcome(TRUE, "Killed", 0, 1, 1, w.executed, FALSE,
                          [db EXCEPT !.stations = Uncommitted(@, w.table)])
             ELSE IF fault = "kill_after_commit"
             THEN Outcome(TRUE, "Killed", 0, 1, 1, w.executed, TRUE,
                          [db EXCEPT !.stations = w.table])
             ELSE Outcome(FALSE, "", LoadCount(rows), 1, 1, w.executed, TRUE,
                          [db EXCEPT !.stations = w.table])

\* Lines 56-66: a fact row takes the next value of the sequence as id and
\* DEFAULT NOW() as ingested_at.
FactRow(a, id, t) ==
    [id |-> id, station_id |-> a.station_id,
     num_bikes_available |-> a.num_bikes_available,
     num_bikes_mechanical |-> a.num_bikes_mechanical,
     num_bikes_ebike |-> a.num_bikes_ebike,
     num_docks_available |-> a.num_docks_available,
     is_installed |-> a.is_installed, is_renting |-> a.is_renting,
     is_returning |-> a.is_returning, last_reported |-> a.last_reported,
     ingested_at |-> t]

\* An insert that skips an observation already stored (a natural key on
\* station_id and last_reported).
MutInsertFacts(table, values, serial, t) ==
    table \cup {FactRow(values[i], serial + i, t) :
                  i \in {k \in 1..Len(values) :
                            ~\E r \in table : /\ r.station_id = values[k].station_id
                                              /\ r.last_reported = values[k].last_reported}}

\* Lines 200-205: a plain INSERT, every row of the values appended.
InsertFacts(table, values, serial, t) ==
    table \cup {FactRow(values[i], serial + i, t) : i \in 1..Len(values)}

\* Line 57: station_id REFERENCES stations(station_id).
ReferencesHold(stations, values) ==
    \A i \in 1..Len(values) : HasStation(stations, values[i].station_id)

\* The first page of the values with a row that references no station, 0 when
\* there is none.
RECURSIVE FirstBadPage(_, _, _)
FirstBadPage(stations, values, p) ==
    IF p > PageCount(values) THEN 0
    ELSE IF ~ReferencesHold(stations, Page(values, p)) THEN p
    ELSE FirstBadPage(stations, values, p + 1)

\* The rows of the pages 1..p.
RowsThroughPage(values, p) ==
    IF p * PageSize < Len(values) THEN p * PageSize ELSE Len(values)

\* load_availability_to_postgres(availability) on store db, t being NOW() of
\* the transaction.  The
\* values a failed statement drew from the sequence stay drawn.
LoadAvailabilityToPostgres(rows, fault, t, db) ==
    IF NoRows(rows) THEN Outcome(FALSE, "", 0, 0, 0, 0, FALSE, db)
    ELSE IF fault = "connect" THEN Outcome(TRUE, "OperationalError", 0, 0, 0, 0, FALSE, db)
    ELSE IF ~db.tables THEN Outcome(TRUE, "UndefinedTable", 0, 1, 0, 1, FALSE, db)
    ELSE IF fault = "execute" THEN Outcome(TRUE, "DatabaseError", 0, 1, 0, 1, FALSE, db)
    ELSE LET bad == FirstBadPage(db.stations, rows, 1)
             before == SubSeq(rows, 1, RowsThroughPage(rows, bad - 1))
             all == [db EXCEPT !.availability = InsertFacts(@, rows, db.serial, t),
                               !.serial = @ + Len(rows)]
         IN  IF bad # 0
             THEN Outcome(TRUE, "ForeignKeyViolation", 0, 1, 0, bad, FALSE,
                          [db EXCEPT !.availability =
                                         Uncommitted(@, InsertFacts(@, before, db.serial, t)),
                                     !.serial = @ + RowsThroughPage(rows, bad)])
             ELSE IF fault = "kill_before_commit"
             THEN Outcome(TRUE, "Killed", 0, 1, 1, PageCount(rows), FALSE,
                          [all EXCEPT !.availability =
                                          Uncommitted(db.availability, all.availability)])
             ELSE IF fault = "kill_after_commit"
             THEN Outcome(TRUE, "Killed", 0, 1, 1, PageCount(rows), TRUE, all)
             ELSE Outcome(FALSE, "", LoadCount(rows), 1, 1, PageCount(rows), TRUE, all)

\* init_postgres_tables(): CREATE TABLE IF NOT EXISTS of both tables and the
\* index, committed together (lines 35-78).
InitPostgresTables(fault, db) ==
    IF fault = "connect" THEN Outcome(TRUE, "OperationalError", 0, 0, 0, 0, FALSE, db)
    ELSE IF fault = "execute" THEN Outcome(TRUE, "DatabaseError", 0, 1, 0, 1, FALSE, db)
    ELSE IF fault = "kill_before_commit" THEN Outcome(TRUE, "Killed", 0, 1, 1, 3, FALSE, db)
    ELSE IF fault = "kill_after_commit"
    THEN Outcome(TRUE, "Killed", 0, 1, 1, 3, TRUE, [db EXCEPT !.tables = TRUE])
    ELSE Outcome(FALSE, "", 0, 1, 1, 3, TRUE, [db EXCEPT !.tables = TRUE])

\* ------------------------------------------------------ the raw snapshot store
\* The payload of the feed: {"nhits": .., "records": [..]}.
Payload(records) == PyDict([nhits |-> PyInt(Len(records)), records |-> PyList(records)])

\* src/src/getApi.py lines 43-48: the document save_to_mongodb stores.
MongoDocument(data, t) ==
    PyDict([data |-> data,
            ingested_at |-> [t |-> "datetime", v |-> UtcNow(t)],
            source |-> PyStr("velib_opendatasoft_api"),
            records_count |-> Get(data.v, "nhits", PyInt(0))])

\* Lines 89-91: find_one(sort=[("ingested_at", -1)]): None on an empty
\* collection, else a document with the latest stamp; which one of several
\* with the same stamp is for the store to choose.
LatestDocuments(collection) ==
    IF collection = <<>> THEN {PyNone}
    ELSE {collection[i] : i \in {k \in 1..Len(collection) :
             \A j \in 1..Len(collection) :
                 collection[j].v.ingested_at.v.ts <= collection[k].v.ingested_at.v.ts}}

\* A `if not raw_doc` that never holds.
MutNoDocument(raw_doc) == FALSE

\* Line 243: `if not raw_doc`.
NoDocument(raw_doc) == ~Truthy(raw_doc)

\* A `if not stations` that never holds.
MutNoStations(stations) == FALSE

\* Line 251: `if not stations`.
NoStations(stations) == stations = <<>>

\* Lines 245 and 253: the soft results, returned as values.
NoDataResult == [error |-> "No data in MongoDB"]
NoStationsResult == [error |-> "No stations in data"]

\* Lines 260-264: the summary of a run.
Summary(t, stations_count, availability_count) ==
    [transformation_time |-> t, stations_loaded |-> stations_count,
     availability_records_loaded |-> availability_count]

\* ------------------------------------------------------- the inputs explored
\* f with key k set to v, and f without key k.
With(f, k, v) == (k :> v) @@ f
Without(f, k) == [x \in DOMAIN f \ {k} |-> f[x]]

\* A record of the feed, as tests/conftest.py gives them: every field set.
FullFields(code) ==
    [stationcode |-> PyStr(code),
     name |-> PyStr("Benjamin Godard - Victor Hugo"),
     coordonnees_geo |-> PyList(<<PyInt(48), PyInt(2)>>),
     capacity |-> PyInt(35),
     nom_arrondissement_communes |-> PyStr("Paris 16"),
     code_insee_commune |-> PyStr("75116"),
     numbikesavailable |-> PyInt(12),
     mechanical |-> PyInt(8),
     ebike |-> PyInt(4),
     numdocksavailable |-> PyInt(23),
     is_installed |-> PyStr("OUI"),
     is_renting |-> PyStr("OUI"),
     is_returning |-> PyStr("NON"),
     duedate |-> PyStr("2024-01-15T10:30:00+00:00")]

\* A record that holds its station code only.
BareFields(code) == [stationcode |-> PyStr(code)]

Rec(fields) == PyDict([fields |-> PyDict(fields)])

\* Records around the station code: set, absent, empty, null.
CodeRecords ==
    {Rec(FullFields("16107")),
     Rec(Without(FullFields("16107"), "stationcode")),
     Rec(With(FullFields("16107"), "stationcode", PyStr(""))),
     Rec(With(BareFields("10042"), "stationcode", PyNone))}

\* Records around the coordinate pair (absent: BareFields itself; a pair of
\* two elements: FullFields).
CoordValues ==
    {PyNone, PyList(<<>>), PyList(<<PyInt(48)>>)}

CoordRecords ==
    {Rec(BareFields("10042"))}
    \cup {Rec(With(BareFields("10042"), "coordonnees_geo", c)) : c \in CoordValues}

\* Records around the event time (with the "+00:00" suffix: FullFields).
DueValues ==
    {PyStr("2024-01-15T10:25:00"), PyStr("not-a-date"), PyInt(5)}

DueRecords == {Rec(With(BareFields("16107"), "duedate", d)) : d \in DueValues}

\* Records around the three flags: is_installed and is_returning set,
\* is_renting absent (all three set, one of them to "NON": FullFields; all
\* three absent: BareFields).
FlagValues == {PyStr("OUI"), PyStr("oui")}

FlagRecords ==
    {Rec(With(With(BareFields("16107"), "is_installed", v), "is_returning", PyStr("OUI")))
        : v \in FlagValues}

\* Malformed entries: a record with no "fields", and "fields": null.
MalformedRecords == {PyDict(EmptyMap), PyDict([fields |-> PyNone])}

RecordSet ==
    CodeRecords \cup CoordRecords \cup DueRecords \cup FlagRecords \cup MalformedRecords

\* The sequences over S of length at most n.
SeqsUpTo(S, n) == UNION {[1..k -> S] : k \in 0..n}

\* A document of the raw store, as save_to_mongodb builds it around the
\* payload of the feed (src/src/getApi.py lines 43-48).
Doc(records) == PyDict([data |-> PyDict([records |-> PyList(records)])])

\* The snapshots explored, with a payload that holds no "records" key.
Snapshots ==
    {Doc(rs) : rs \in SeqsUpTo(RecordSet, MaxRecords)}
    \cup {PyDict([data |-> PyDict(EmptyMap)])}

\* The rows handed to the sink operations when they are called on their own
\* are rows as transform_data builds them: of station 16107 with every field
\* set, of station 16107 with the defaults, and of station 10042.
StationFull == StationRow(FullFields("16107"), PyStr("16107"), FullFields("16107").coordonnees_geo)
StationBare == StationRow(BareFields("16107"), PyStr("16107"), PyList(<<>>))
StationOther == StationRow(BareFields("10042"), PyStr("10042"), PyList(<<>>))

\* A list of station rows of more than one page: distinct stations on the
\* first page, and station 10042 twice on the second.
StationPages ==
    [i \in 1..(PageSize + 2) |->
        IF i <= PageSize
        THEN StationRow(BareFields(ToString(20000 + i)), PyStr(ToString(20000 + i)),
                        PyList(<<>>))
        ELSE StationOther]

\* The lists of station rows explored: empty, of one row, of two stations, and
\* with one station twice.
StationBatches ==
    {<<>>, <<StationFull>>, <<StationBare>>, <<StationOther>>,
     <<StationFull, StationOther>>, <<StationFull, StationBare>>}

\* The lists of station rows explored around the pages of execute_values.
StationPageBatches == {<<StationFull>>, <<StationFull, StationOther>>, StationPages}

AvailabilityFull == AvailabilityRow(FullFields("16107"), PyStr("16107"), 0)
AvailabilityOther == AvailabilityRow(BareFields("10042"), PyStr("10042"), 0)

\* A list of availability rows of more than one page: station 16107 on the
\* first page, station 10042 on the second.
AvailabilityPages ==
    [i \in 1..(PageSize + 1) |->
        IF i <= PageSize THEN AvailabilityFull ELSE AvailabilityOther]

\* The lists of availability rows explored: empty, of one row, of two
\* stations, and with one row twice.
AvailabilityBatches ==
    {<<>>, <<AvailabilityFull>>, <<AvailabilityFull, AvailabilityOther>>,
     <<AvailabilityFull, AvailabilityFull>>}

\* The lists of availability rows explored around the pages of execute_values.
AvailabilityPageBatches == {<<AvailabilityFull, AvailabilityOther>>, AvailabilityPages}

\* The payloads the extraction stores: no record; a well-formed record and
\* one without station code; every record skipped; a malformed entry; one
\* station twice, with other values.  Their records carry an event time that
\* parses (the fallback to the clock is explored with the snapshots above).
Payloads ==
    {Payload(<<>>),
     Payload(<<Rec(FullFields("16107")), Rec(Without(FullFields("16107"), "stationcode"))>>),
     Payload(<<Rec(Without(FullFields("16107"), "stationcode"))>>),
     Payload(<<PyDict([fields |-> PyNone]), Rec(FullFields("16107"))>>),
     Payload(<<Rec(FullFields("16107")),
               Rec(With(BareFields("16107"), "duedate", PyStr("2024-01-15T10:25:00")))>>)}

\* What the environment does to a call that reaches a store.
Faults == {"none", "connect", "execute", "kill_before_commit", "kill_after_commit"}

\* ---------------------------------------------------------------- the state
VARIABLES
    raw,     \* the snapshot handed to transform_data
    calls,   \* the calls of transform_data made so far: [at, out]
    loads,   \* the number of calls of the load operations made on their own
    db,      \* the PostgreSQL store: tables, stations, availability, serial
    last,    \* the last call of a load operation, with the store before it
    prev,    \* the call of a load operation before the last
    mongo,   \* the collection velib_raw of the raw snapshot store
    saves,   \* the calls of save_to_mongodb so far, with their connections
    extract, \* per DAG run: the task instance of extract_velib_data
    task,    \* per DAG run: the task instance of transform_and_load
    run      \* per DAG run: its run of transform_and_load under way, or its last

vars == <<raw, calls, loads, db, last, prev, mongo, saves, extract, task, run>>

\* Calls of transform_data explored on one snapshot, and calls of the load
\* operations explored on one store.
MaxCalls == 2
MaxLoads == 3
\* In one behaviour of the DAG: DAG runs created, and attempts of its two
\* tasks started by the scheduler.
MaxDagRuns == 2
MaxAttempts == 4
\* In one behaviour of the scripts: invocations of getApi.py and of
\* traitement.py.
MaxSnapshots == 2
MaxInvocations == 1

\* default_args of the DAG (velib_etl_dag.py lines 21-22): "retries": 2 and
\* "retry_delay": timedelta(minutes=1), in ticks of the delay.
Retries == 2
RetryDelay == 1

\* A task instance the scheduler has not yet looked at.  via tells a task of
\* the DAG from a direct invocation of the script, try counts the attempts
\* started, delay is the time to wait before the retry of a failed attempt.
NoTask == [via |-> "dag", state |-> "none", try |-> 0, delay |-> 0]

\* The same of extract_velib_data; doc is the document save_to_mongodb has
\* built and not yet inserted.
NoExtract == [via |-> "dag", state |-> "none", try |-> 0, delay |-> 0, doc |-> PyNone]

\* A failed attempt is never retried.
MutEligible(try) == FALSE

\* An attempt that failed is retried while the attempts started do not exceed
\* the retries by more than one.
Eligible(try) == try <= Retries

\* No extraction was attempted yet.
NoSaves == [n |-> 0, raised |-> FALSE, opened |-> 0, closed |-> 0]

\* The store before init_postgres_tables first ran.
EmptyStore == Store(FALSE, {}, {}, 0)

\* No run was started yet.  ops lists the operations the run invoked, opened
\* and closed count its store connections; values are the values built for
\* the station upsert, sent counts the statements of the load under way,
\* txn_at is NOW() of its transaction and pending the rows it wrote and has
\* not committed.
IdleRun ==
    [pc |-> "idle", raw_doc |-> PyNone, stations |-> <<>>,
     availability |-> <<>>, result |-> <<>>, exc |-> "", ops |-> <<>>,
     opened |-> 0, closed |-> 0, values |-> <<>>, sent |-> 0, txn_at |-> 0,
     pending |-> {}]

NoCall == [op |-> "none"]

\* The record of one call of a load operation: its arguments, what it did
\* (Outcome, without the store it leaves) and the store it found.
CallRecord(op, rows, out, before) ==
    [op |-> op, rows |-> rows, raised |-> out.raised, exc |-> out.exc,
     ret |-> out.ret, opened |-> out.opened, closed |-> out.closed,
     executed |-> out.executed, committed |-> out.committed, before |-> before]

\* ------------------------------------------- transform_data called on its own
InitTransform ==
    /\ raw \in Snapshots
    /\ calls = <<>>
    /\ loads = 0
    /\ db = EmptyStore
    /\ last = NoCall
    /\ prev = NoCall
    /\ mongo = <<>>
    /\ saves = NoSaves
    /\ extract = <<>>
    /\ task = <<>>
    /\ run = <<>>

\* One call transform_data(raw), whose records read `clock`.
CallTransform(clock) ==
    /\ Len(calls) < MaxCalls
    /\ calls' = Append(calls, [at |-> clock, out |-> TransformData(raw, clock)])
    /\ UNCHANGED <<raw, loads, db, last, prev, mongo, saves, extract, task, run>>

NextTransform == \E clock \in RecordReadings(raw) : CallTransform(clock)

SpecTransform == InitTransform /\ [][NextTransform]_vars

\* --------------------------------------- the sink operations called on their own
InitSink ==
    /\ raw = Doc(<<>>)
    /\ calls = <<>>
    /\ loads = 0
    /\ db = EmptyStore
    /\ last = NoCall
    /\ prev = NoCall
    /\ mongo = <<>>
    /\ saves = NoSaves
    /\ extract = <<>>
    /\ task = <<>>
    /\ run = <<>>

\* One call init_postgres_tables().
CallInitTables(fault) ==
    LET out == InitPostgresTables(fault, db)
    IN  /\ db' = out.db
        /\ UNCHANGED <<raw, calls, loads, last, prev, mongo, saves, extract, task, run>>

\* One call load_stations_to_postgres(rows): the rows read `clock` (the clock
\* of the process), and NOW() of the transaction is t (the clock of the
\* server).
CallLoadStations(rows, fault, clock, t) ==
    LET out == LoadStationsToPostgres(rows, fault, clock, t, db)
    IN  /\ loads < MaxLoads
        /\ loads' = loads + 1
        /\ db' = out.db
        /\ last' = CallRecord("load_stations_to_postgres", rows, out, db)
        /\ prev' = last
        /\ UNCHANGED <<raw, calls, mongo, saves, extract, task, run>>

\* One call load_availability_to_postgres(rows), NOW() of its transaction
\* being t.
CallLoadAvailability(rows, fault, t) ==
    LET out == LoadAvailabilityToPostgres(rows, fault, t, db)
    IN  /\ loads < MaxLoads
        /\ loads' = loads + 1
        /\ db' = out.db
        /\ last' = CallRecord("load_availability_to_postgres", rows, out, db)
        /\ prev' = last
        /\ UNCHANGED <<raw, calls, mongo, saves, extract, task, run>>

NextSink ==
    \/ \E fault \in Faults : CallInitTables(fault)
    \/ \E rows \in StationBatches, fault \in Faults :
          \E clock \in Readings(Len(rows)), t \in Clock :
              CallLoadStations(rows, fault, clock, t)
    \/ \E rows \in AvailabilityBatches, fault \in Faults, t \in Clock :
          CallLoadAvailability(rows, fault, t)

SpecSink == InitSink /\ [][NextSink]_vars

\* ------------------------- the load operations called with lists of several pages
\* The tables exist, as after init_postgres_tables.
InitPages ==
    /\ raw = Doc(<<>>)
    /\ calls = <<>>
    /\ loads = 0
    /\ db = Store(TRUE, {}, {}, 0)
    /\ last = NoCall
    /\ prev = NoCall
    /\ mongo = <<>>
    /\ saves = NoSaves
    /\ extract = <<>>
    /\ task = <<>>
    /\ run = <<>>

\* Calls of the load operations with lists of several pages explored in a
\* row.  The list of more than one page is called with the readings a, b,
\* b, ..: the first row's and one the rows after it share (its second
\* statement is rejected, so none of its readings is kept).
MaxPageLoads == 2

NextPages ==
    /\ loads < MaxPageLoads
    /\ \/ \E rows \in StationPageBatches \ {StationPages}, fault \in Faults :
             \E clock \in Readings(Len(rows)), t \in Clock :
                 CallLoadStations(rows, fault, clock, t)
       \/ \E fault \in Faults, a, b, t \in Clock :
             CallLoadStations(StationPages, fault,
                              [i \in 1..Len(StationPages) |-> IF i = 1 THEN a ELSE b], t)
       \/ \E rows \in AvailabilityPageBatches, fault \in Faults, t \in Clock :
             CallLoadAvailability(rows, fault, t)

SpecPages == InitPages /\ [][NextPages]_vars

\* ------------------------------------------------------------- the pipeline
Init ==
    /\ raw = Doc(<<>>)
    /\ calls = <<>>
    /\ loads = 0
    /\ db = EmptyStore
    /\ last = NoCall
    /\ prev = NoCall
    /\ mongo = <<>>
    /\ saves = NoSaves
    /\ extract = <<>>
    /\ task = <<>>
    /\ run = <<>>

\* The DAG runs, or the direct invocations, created so far.
DagRuns == 1..Len(task)

\* The attempts of extract_velib_data and of transform_and_load started so
\* far in the DAG runs 1..d.
RECURSIVE Started(_)
Started(d) == IF d = 0 THEN 0 ELSE Started(d - 1) + extract[d].try + task[d].try

\* The invocations of getApi.py so far.
Extractions == Cardinality({d \in DagRuns : extract[d].via = "main"})

\* The invocations of traitement.py so far.
Invocations == Cardinality({d \in DagRuns : task[d].via = "main"})

\* A task instance is ready for an attempt: its first, or a retry once the
\* delay has passed.
Ready(t) ==
    \/ t.state = "scheduled"
    \/ t.state = "up_for_retry" /\ t.delay = 0

\* The task instance after an attempt that raised or was terminated: it is
\* retried after the delay while retries are left, and marked failed
\* otherwise ("retries": 2, "retry_delay": one minute).  A script run by hand
\* has ended.
AfterFailure(t) ==
    IF t.via = "main" THEN [t EXCEPT !.state = "exited"]
    ELSE [t EXCEPT !.state = IF Eligible(t.try) THEN "up_for_retry" ELSE "failed",
                   !.delay = IF Eligible(t.try) THEN RetryDelay ELSE 0]

\* The scheduler creates a DAG run (schedule "*/5 * * * *", catchup False):
\* one at every interval, whatever the state of the DAG runs before it
\* (depends_on_past False, no max_active_runs), with a task instance of
\* extract_velib_data and one of transform_and_load.
Schedule ==
    /\ Len(task) < MaxDagRuns
    /\ extract' = Append(extract, [NoExtract EXCEPT !.state = "scheduled"])
    /\ task' = Append(task, [NoTask EXCEPT !.state = "scheduled"])
    /\ run' = Append(run, IdleRun)
    /\ UNCHANGED <<raw, calls, loads, db, last, prev, mongo, saves>>

\* extract_velib_data() up to the insert (getApi.py lines 56-68, 27-33 and
\* 36-48), as attempt t of a task instance: fetch_velib_data raises when the
\* feed does not answer or answers with an error status (lines 31-32), before
\* save_to_mongodb is called; otherwise save_to_mongodb creates its client
\* and builds the document, stamped with datetime.utcnow() (line 45), which
\* shows `clock`.
Fetched(t, data, fault, clock) ==
    IF fault = "fetch" THEN AfterFailure(t)
    ELSE [t EXCEPT !.state = "running", !.doc = MongoDocument(data, clock)]

\* The calls of save_to_mongodb after one more, which holds its client open.
Saving == [saves EXCEPT !.n = @ + 1, !.raised = FALSE, !.opened = @ + 1]

\* The scheduler starts an attempt of the task extract_velib_data of DAG run
\* d (velib_etl_dag.py lines 26-30).  A failed attempt is retried like any
\* task of the DAG; once the task is marked failed, transform_and_load of the
\* same DAG run is marked upstream_failed and never started.
Extract(d, data, fault, clock) ==
    LET after == Fetched([extract[d] EXCEPT !.try = @ + 1], data, fault, clock)
    IN  /\ Ready(extract[d])
        /\ Started(Len(task)) < MaxAttempts
        /\ extract' = [extract EXCEPT ![d] = after]
        /\ saves' = IF fault = "fetch" THEN saves ELSE Saving
        /\ task' = IF after.state = "failed"
                   THEN [task EXCEPT ![d].state = "upstream_failed"]
                   ELSE task
        /\ UNCHANGED <<raw, calls, loads, db, last, prev, mongo, run>>

\* collection.insert_one(document) and client.close() of save_to_mongodb
\* (getApi.py lines 50-53), for the document extraction d has built: the
\* document is appended to the collection with the stamp it was given when
\* it was built; when the store cannot be reached insert_one raises, before
\* client.close().
InsertDocument(d, fault) ==
    LET failed == fault = "connect"
        t == [extract[d] EXCEPT !.doc = PyNone]
        after == IF failed THEN AfterFailure(t)
                 ELSE [t EXCEPT !.state = IF t.via = "main" THEN "exited" ELSE "success"]
    IN  /\ extract[d].state = "running"
        /\ mongo' = IF failed THEN mongo ELSE Append(mongo, extract[d].doc)
        /\ saves' = [saves EXCEPT !.raised = failed,
                                  !.closed = @ + (IF failed THEN 0 ELSE 1)]
        /\ extract' = [extract EXCEPT ![d] = after]
        /\ task' = IF after.state = "failed"
                   THEN [task EXCEPT ![d].state = "upstream_failed"]
                   ELSE task
        /\ UNCHANGED <<raw, calls, loads, db, last, prev, run>>

\* The scheduler starts an attempt of the task transform_and_load of DAG run
\* d (velib_etl_dag.py lines 33-38 and 51-52), which calls
\* transform_and_load() (traitement.py line 232): only after
\* extract_velib_data of the same DAG run succeeded; the first attempt, or a
\* retry once the delay has passed.
StartRun(d) ==
    /\ task[d].via = "dag"
    /\ extract[d].state = "success"
    /\ Ready(task[d])
    /\ Started(Len(task)) < MaxAttempts
    /\ run' = [run EXCEPT ![d] = [IdleRun EXCEPT !.pc = "init"]]
    /\ task' = [task EXCEPT ![d] = [@ EXCEPT !.state = "running", !.try = @ + 1]]
    /\ UNCHANGED <<raw, calls, loads, db, last, prev, mongo, saves, extract>>

\* The script is run directly (traitement.py lines 270-272: python
\* traitement.py calls transform_and_load()): no scheduler, no extraction
\* before it, no retry.
Invoke ==
    /\ Invocations < MaxInvocations
    /\ extract' = Append(extract, NoExtract)
    /\ task' = Append(task, [via |-> "main", state |-> "running", try |-> 1, delay |-> 0])
    /\ run' = Append(run, [IdleRun EXCEPT !.pc = "init"])
    /\ UNCHANGED <<raw, calls, loads, db, last, prev, mongo, saves>>

\* The task instance once its attempt stands at pc: while the attempt runs
\* nothing changes; a returned value, soft results included, is a success; an
\* exception or a termination is retried after the delay while retries are
\* left, and marks the task failed otherwise.  A direct invocation has ended.
TaskExit(t, pc) ==
    IF pc \notin {"returned", "raised", "killed"} THEN t
    ELSE IF t.via = "main" THEN [t EXCEPT !.state = "exited"]
    ELSE IF pc = "returned" THEN [t EXCEPT !.state = "success"]
    ELSE AfterFailure(t)

\* One tick of the delays before the retries passes.
Wait ==
    /\ \E d \in DagRuns : extract[d].delay > 0 \/ task[d].delay > 0
    /\ extract' = [d \in DagRuns |->
                      [extract[d] EXCEPT !.delay = IF @ > 0 THEN @ - 1 ELSE 0]]
    /\ task' = [d \in DagRuns |->
                   [task[d] EXCEPT !.delay = IF @ > 0 THEN @ - 1 ELSE 0]]
    /\ UNCHANGED <<raw, calls, loads, db, last, prev, mongo, saves, run>>

\* The run r has called operation op.
Entered(r, op) == [r EXCEPT !.ops = Append(@, op)]

\* The run r without a transaction: what the operation under way built and
\* wrote is gone, by commit, by rollback or with the connection.
NoTransaction(r) ==
    [r EXCEPT !.values = <<>>, !.sent = 0, !.txn_at = 0, !.pending = {}]

\* A run that goes on after an operation raised.
MutAfterCall(r, out, pc) ==
    [r EXCEPT !.opened = @ + out.opened,
              !.closed = @ + out.closed,
              !.pc = IF out.exc = "Killed" THEN "killed" ELSE pc,
              !.exc = IF out.raised THEN out.exc ELSE @]

\* The run r after a step of one of its operations, which opened and closed
\* the connections of `out`: transform_and_load catches nothing, so an
\* exception leaves the run, and a process terminated inside the call runs
\* no further; the rows of a transaction that was not committed are
\* discarded.
AfterCall(r, out, pc) ==
    LET s == IF out.raised THEN NoTransaction(r) ELSE r
    IN  [s EXCEPT !.opened = @ + out.opened,
                  !.closed = @ + out.closed,
                  !.pc = IF out.exc = "Killed" THEN "killed"
                         ELSE IF out.raised THEN "raised" ELSE pc,
                  !.exc = IF out.raised THEN out.exc ELSE @]

\* The run of DAG run d becomes r, and its task instance follows.
Step(d, r) ==
    /\ run' = [run EXCEPT ![d] = r]
    /\ task' = [task EXCEPT ![d] = TaskExit(@, r.pc)]

\* A step of an operation that raises exc with `opened` connections opened
\* and none closed.
Raises(exc, opened) == Outcome(TRUE, exc, 0, opened, 0, 0, FALSE, db)

\* A step of an operation that goes well, with the connections it opened and
\* closed.
Passes(opened, closed) == Outcome(FALSE, "", 0, opened, closed, 0, FALSE, db)

\* Line 237, init_postgres_tables(), up to its first statement (lines 35-37):
\* the connection is opened.
RunInitTables(d, fault) ==
    LET r == Entered(run[d], "init_postgres_tables")
    IN  /\ run[d].pc = "init"
        /\ Step(d, IF fault = "connect"
                   THEN AfterCall(r, Raises("OperationalError", 0), "init_statement")
                   ELSE AfterCall(r, Passes(1, 0), "init_statement"))
        /\ UNCHANGED <<raw, calls, loads, db, last, prev, mongo, saves, extract>>

\* The statements of init_postgres_tables, in their order (lines 39, 54 and
\* 71): CREATE TABLE IF NOT EXISTS stations, CREATE TABLE IF NOT EXISTS
\* station_availability, CREATE INDEX IF NOT EXISTS on station_availability.
InitStatements == 3

\* Another run has created the tables in a transaction that is not yet
\* committed: a CREATE TABLE IF NOT EXISTS of the same table waits for it.
Creating(d) ==
    \E e \in DagRuns \ {d} :
        /\ run[e].pc \in {"init_statement", "init_commit"}
        /\ run[e].sent > 0
        /\ ~db.tables

\* Another run has written fact rows in a transaction that is not yet
\* committed: CREATE INDEX, which locks the table against writes before it
\* looks for the index, waits for it.
WritingFacts(d) ==
    \E e \in DagRuns \ {d} :
        /\ run[e].pc \in {"availability_statement", "availability_commit"}
        /\ run[e].sent > 0

\* Another run holds the lock of its CREATE INDEX on station_availability, in
\* a bootstrap that is not yet committed: an INSERT into the table waits for
\* it.
Indexing(d) == \E e \in DagRuns \ {d} : run[e].pc = "init_commit"

\* Lines 39-76: one cur.execute of init_postgres_tables.  The statements run
\* in the transaction psycopg2 opens at the first of them: tables they create
\* are seen by the other runs only from the commit on.  A statement that
\* fails, whatever the cause (a CREATE TABLE IF NOT EXISTS that waited for
\* another one of the same table may fail on the catalog entry of the other),
\* raises out of the function, before the commit and before the close.
RunInitStatement(d, fault) ==
    LET r == run[d]
    IN  /\ r.pc = "init_statement"
        /\ \/ /\ fault = "execute"
              /\ Step(d, AfterCall(r, Raises("DatabaseError", 0), r.pc))
           \/ /\ fault = "none"
              /\ ~db.tables => ~Creating(d)
              /\ (db.tables /\ r.sent + 1 = InitStatements) => ~WritingFacts(d)
              /\ Step(d, [r EXCEPT !.sent = @ + 1,
                                   !.pc = IF r.sent + 1 = InitStatements
                                          THEN "init_commit" ELSE @])
        /\ UNCHANGED <<raw, calls, loads, db, last, prev, mongo, saves, extract>>

\* Lines 76-78: conn.commit(), where the tables and the index come to exist
\* for every run, then the connection is closed.
RunInitCommit(d) ==
    LET r == run[d]
    IN  /\ r.pc = "init_commit"
        /\ db' = [db EXCEPT !.tables = TRUE]
        /\ Step(d, NoTransaction(AfterCall(r, Passes(0, 1), "fetch")))
        /\ UNCHANGED <<raw, calls, loads, last, prev, mongo, saves, extract>>

\* Lines 241-245: raw_doc = get_latest_from_mongodb(), which finds
\* `document`; with no document the run returns the "no data" result.  The
\* read raises when the store cannot be reached, before client.close()
\* (line 92).
RunFetch(d, fault, document) ==
    LET failed == fault = "connect"
        out == IF failed THEN Raises("ServerSelectionTimeoutError", 1) ELSE Passes(1, 1)
        after == AfterCall(Entered(run[d], "get_latest_from_mongodb"), out, "transform")
    IN  /\ run[d].pc = "fetch"
        /\ Step(d, IF failed THEN after
                   ELSE IF NoDocument(document)
                        THEN [after EXCEPT !.pc = "returned", !.result = NoDataResult]
                        ELSE [after EXCEPT !.raw_doc = document])
        /\ UNCHANGED <<raw, calls, loads, db, last, prev, mongo, saves, extract>>

\* Lines 249-253: stations, availability = transform_data(raw_doc), whose
\* records read `clock`; with no station the run returns the "no stations"
\* result.
RunTransform(d, clock) ==
    LET t == TransformData(run[d].raw_doc, clock)
        out == IF t.raised THEN Raises(t.exc, 0) ELSE Passes(0, 0)
        after == AfterCall(Entered(run[d], "transform_data"), out, "load_stations")
    IN  /\ run[d].pc = "transform"
        /\ Step(d, IF t.raised THEN after
                   ELSE IF NoStations(t.value[1])
                        THEN [after EXCEPT !.pc = "returned", !.result = NoStationsResult]
                        ELSE [after EXCEPT !.stations = t.value[1],
                                           !.availability = t.value[2]])
        /\ UNCHANGED <<raw, calls, loads, db, last, prev, mongo, saves, extract>>

\* Line 257, stations_count = load_stations_to_postgres(stations), up to the
\* statement (lines 152-179): the connection is opened and the values are
\* built, row i with the reading clock[i] of datetime.utcnow().
RunLoadStations(d, fault, clock) ==
    LET rows == run[d].stations
        r == Entered(run[d], "load_stations_to_postgres")
    IN  /\ run[d].pc = "load_stations"
        /\ Step(d, IF NoRows(rows)
                   THEN [AfterCall(r, Passes(0, 0), "load_availability")
                            EXCEPT !.result = [stations_loaded |-> 0]]
                   ELSE IF fault = "connect"
                   THEN AfterCall(r, Raises("OperationalError", 0), "load_availability")
                   ELSE [AfterCall(r, Passes(1, 0), "stations_statement")
                            EXCEPT !.values = StationValues(rows, clock)])
        /\ UNCHANGED <<raw, calls, loads, db, last, prev, mongo, saves, extract>>

\* The station_ids of a set or of a list of rows.
StationIds(rows) == {r.station_id : r \in rows}
PageIds(page) == {page[i].station_id : i \in 1..Len(page)}

\* The stations table as a transaction that wrote the rows `pending` sees
\* it, and as it is once the transaction is committed.
WithPending(table, pending) ==
    {r \in table : r.station_id \notin StationIds(pending)} \cup pending

\* Another run holds a row of one of these stations in a transaction that is
\* not yet committed: a statement that writes the row waits for it.
Locked(d, ids) ==
    \E e \in DagRuns \ {d} :
        /\ run[e].pc \in {"stations_statement", "stations_commit"}
        /\ StationIds(run[e].pending) \cap ids # {}

\* The rows of a page the statement works through, in their order: all of
\* them, or the rows up to the first one whose station an earlier row of the
\* page has written, where the statement is rejected.
RowsTried(page) ==
    LET again == {j \in 1..Len(page) :
                     \E i \in 1..(j - 1) : page[i].station_id = page[j].station_id}
    IN  IF again = {} THEN page
        ELSE SubSeq(page, 1, CHOOSE j \in again : \A k \in again : j <= k)

\* Line 181: one statement of execute_values(cur, query, values), a page of
\* the values.  The first statement opens the transaction; its NOW() is t,
\* what the clock of the server shows when the transaction starts, before
\* the statement waits for any row.  The statement works through its rows in
\* their order and waits for every row another transaction holds; what the
\* statements write is seen by the run only, until the commit.
RunStationsStatement(d, fault, t) ==
    LET r == run[d]
        page == Page(r.values, r.sent + 1)
        now == IF r.sent = 0 THEN t ELSE r.txn_at
        after == UpsertPage(WithPending(db.stations, r.pending), page, now)
        wrote == {w \in after : w.station_id \in StationIds(r.pending) \cup PageIds(page)}
    IN  /\ r.pc = "stations_statement"
        /\ \/ /\ ~db.tables
              /\ fault = "none"
              /\ Step(d, AfterCall(r, Raises("UndefinedTable", 0), r.pc))
           \/ /\ db.tables
              /\ fault = "execute"
              /\ Step(d, AfterCall(r, Raises("DatabaseError", 0), r.pc))
           \/ /\ db.tables
              /\ fault = "none"
              /\ RepeatsStation(page)
              /\ ~Locked(d, PageIds(RowsTried(page)))
              /\ Step(d, AfterCall(r, Raises("CardinalityViolation", 0), r.pc))
           \/ /\ db.tables
              /\ fault = "none"
              /\ ~RepeatsStation(page)
              /\ ~Locked(d, PageIds(page))
              /\ Step(d, [r EXCEPT !.sent = @ + 1, !.txn_at = now, !.pending = wrote,
                                   !.pc = IF r.sent + 1 = PageCount(r.values)
                                          THEN "stations_commit" ELSE @])
        /\ UNCHANGED <<raw, calls, loads, db, last, prev, mongo, saves, extract>>

\* Lines 182-188: conn.commit(), where the rows the transaction wrote take
\* their place in the table, then the connection is closed and the count
\* returned.
RunStationsCommit(d) ==
    LET r == run[d]
        out == Passes(0, 1)
    IN  /\ r.pc = "stations_commit"
        /\ db' = [db EXCEPT !.stations = WithPending(@, r.pending)]
        /\ Step(d, [NoTransaction(AfterCall(r, out, "load_availability"))
                       EXCEPT !.result = [stations_loaded |-> LoadCount(r.values)]])
        /\ UNCHANGED <<raw, calls, loads, last, prev, mongo, saves, extract>>

\* Line 258, availability_count = load_availability_to_postgres(..), up to
\* the statement (lines 191-220): the connection is opened.
RunLoadAvailability(d, fault) ==
    LET rows == run[d].availability
        r == Entered(run[d], "load_availability_to_postgres")
    IN  /\ run[d].pc = "load_availability"
        /\ Step(d, IF NoRows(rows)
                   THEN [AfterCall(r, Passes(0, 0), "summary")
                            EXCEPT !.result = [stations_loaded |-> r.result.stations_loaded,
                                               availability_records_loaded |-> 0]]
                   ELSE IF fault = "connect"
                   THEN AfterCall(r, Raises("OperationalError", 0), "summary")
                   ELSE AfterCall(r, Passes(1, 0), "availability_statement"))
        /\ UNCHANGED <<raw, calls, loads, db, last, prev, mongo, saves, extract>>

\* Line 222: one statement of execute_values, a page of the rows.  The ids
\* are drawn from the sequence when the statement runs, and stay drawn
\* whatever becomes of the transaction; ingested_at is NOW() of the
\* transaction, t, what the clock of the server shows when the transaction
\* starts; station_id must reference a committed station.  The statement
\* waits while the bootstrap of another run holds the table.
RunAvailabilityStatement(d, fault, t) ==
    LET r == run[d]
        page == Page(r.availability, r.sent + 1)
        now == IF r.sent = 0 THEN t ELSE r.txn_at
        wrote == InsertFacts(r.pending, page, db.serial, now)
    IN  /\ r.pc = "availability_statement"
        /\ \/ /\ ~db.tables
              /\ fault = "none"
              /\ db' = db
              /\ Step(d, AfterCall(r, Raises("UndefinedTable", 0), r.pc))
           \/ /\ db.tables
              /\ fault = "execute"
              /\ db' = db
              /\ Step(d, AfterCall(r, Raises("DatabaseError", 0), r.pc))
           \/ /\ db.tables
              /\ fault = "none"
              /\ ~Indexing(d)
              /\ ~ReferencesHold(db.stations, page)
              /\ db' = [db EXCEPT !.serial = @ + Len(page)]
              /\ Step(d, AfterCall(r, Raises("ForeignKeyViolation", 0), r.pc))
           \/ /\ db.tables
              /\ fault = "none"
              /\ ~Indexing(d)
              /\ ReferencesHold(db.stations, page)
              /\ db' = [db EXCEPT !.serial = @ + Len(page)]
              /\ Step(d, [r EXCEPT !.sent = @ + 1, !.txn_at = now, !.pending = wrote,
                                   !.pc = IF r.sent + 1 = PageCount(r.availability)
                                          THEN "availability_commit" ELSE @])
        /\ UNCHANGED <<raw, calls, loads, last, prev, mongo, saves, extract>>

\* Lines 223-229: conn.commit(), where the rows become visible, then the
\* connection is closed and the count returned.
RunAvailabilityCommit(d) ==
    LET r == run[d]
    IN  /\ r.pc = "availability_commit"
        /\ db' = [db EXCEPT !.availability = @ \cup r.pending]
        /\ Step(d, [NoTransaction(AfterCall(r, Passes(0, 1), "summary"))
                       EXCEPT !.result =
                           [stations_loaded |-> r.result.stations_loaded,
                            availability_records_loaded |-> LoadCount(r.availability)]])
        /\ UNCHANGED <<raw, calls, loads, last, prev, mongo, saves, extract>>

\* Lines 260-267: the summary is built, with datetime.utcnow() read after
\* both loads (line 261), which shows t, and returned.
RunSummary(d, t) ==
    LET r == run[d]
    IN  /\ r.pc = "summary"
        /\ Step(d, [r EXCEPT !.pc = "returned",
                             !.result = Summary(t, r.result.stations_loaded,
                                                r.result.availability_records_loaded)])
        /\ UNCHANGED <<raw, calls, loads, db, last, prev, mongo, saves, extract>>

\* The steps at which a run is between two steps of its operations.
RunSteps ==
    {"init", "init_statement", "init_commit", "fetch", "transform",
     "load_stations", "stations_statement", "stations_commit",
     "load_availability", "availability_statement", "availability_commit",
     "summary"}

\* The process of the run of DAG run d is terminated: nothing more of the
\* run is executed, the transaction it had open is rolled back, and the
\* connection it held is left to the server.
Terminate(d) ==
    /\ run[d].pc \in RunSteps
    /\ Step(d, [NoTransaction(run[d]) EXCEPT !.pc = "killed", !.exc = "Killed"])
    /\ UNCHANGED <<raw, calls, loads, db, last, prev, mongo, saves, extract>>

\* A step of one of the runs of transform_and_load under way.
RunStep ==
    \/ \E d \in DagRuns, fault \in {"none", "connect"} : RunInitTables(d, fault)
    \/ \E d \in DagRuns, fault \in {"none", "execute"} : RunInitStatement(d, fault)
    \/ \E d \in DagRuns : RunInitCommit(d)
    \/ \E d \in DagRuns, fault \in {"none", "connect"} :
          /\ run[d].pc = "fetch"
          /\ \E document \in LatestDocuments(mongo) : RunFetch(d, fault, document)
    \/ \E d \in DagRuns :
          /\ run[d].pc = "transform"
          /\ \E clock \in RecordReadings(run[d].raw_doc) : RunTransform(d, clock)
    \/ \E d \in DagRuns, fault \in {"none", "connect"} :
          /\ run[d].pc = "load_stations"
          /\ \E clock \in Readings(Len(run[d].stations)) :
                RunLoadStations(d, fault, clock)
    \/ \E d \in DagRuns, fault \in {"none", "execute"}, t \in Clock :
          RunStationsStatement(d, fault, t)
    \/ \E d \in DagRuns : RunStationsCommit(d)
    \/ \E d \in DagRuns, fault \in {"none", "connect"} : RunLoadAvailability(d, fault)
    \/ \E d \in DagRuns, fault \in {"none", "execute"}, t \in Clock :
          RunAvailabilityStatement(d, fault, t)
    \/ \E d \in DagRuns : RunAvailabilityCommit(d)
    \/ \E d \in DagRuns, t \in Clock : RunSummary(d, t)
    \/ \E d \in DagRuns : Terminate(d)

\* The DAG under its scheduler.  The DAG runs overlap: each step is a step
\* of any one of them.
Next ==
    \/ Schedule
    \/ Wait
    \/ \E d \in DagRuns :
          /\ Ready(extract[d])
          /\ \E data \in Payloads, fault \in {"none", "fetch"}, clock \in Clock :
                Extract(d, data, fault, clock)
    \/ \E d \in DagRuns, fault \in {"none", "connect"} : InsertDocument(d, fault)
    \/ \E d \in DagRuns : StartRun(d)
    \/ RunStep

Spec == Init /\ [][Next]_vars

\* ----------------------------------------------- the scripts run on their own
\* python getApi.py (getApi.py lines 79-81) calls extract_velib_data() once,
\* up to the insert: no scheduler, no retry.
Save(data, fault, clock) ==
    LET t == [NoExtract EXCEPT !.via = "main", !.try = 1]
    IN  /\ Extractions < MaxSnapshots
        /\ extract' = Append(extract, Fetched(t, data, fault, clock))
        /\ task' = Append(task, NoTask)
        /\ run' = Append(run, IdleRun)
        /\ saves' = IF fault = "fetch" THEN saves ELSE Saving
        /\ UNCHANGED <<raw, calls, loads, db, last, prev, mongo>>

\* The scripts run by hand: a run of transform_and_load started this way can
\* meet an empty store (under the scheduler a run starts only after an
\* extraction stored a snapshot).
NextScript ==
    \/ Invoke
    \/ \E data \in Payloads, fault \in {"none", "fetch"}, clock \in Clock :
          Save(data, fault, clock)
    \/ \E d \in DagRuns, fault \in {"none", "connect"} : InsertDocument(d, fault)
    \/ RunStep

SpecScript == Init /\ [][NextScript]_vars

\* ------------------------------------------------ what the claims speak about
\* The fields of a source record, as a reader of the record sees them: none
\* when the record holds no mapping under "fields".
SourceFields(record) ==
    IF record.t = "dict" /\ "fields" \in DOMAIN record.v /\ record.v["fields"].t = "dict"
    THEN record.v["fields"].v
    ELSE EmptyMap

\* The record holds a station code that is neither absent, nor null, nor empty.
HasStationCode(record) ==
    LET f == SourceFields(record)
    IN  "stationcode" \in DOMAIN f /\ f["stationcode"] \notin {PyNone, PyStr("")}

\* The indexes of the records that hold a station code, in the records' order.
RECURSIVE KeptFrom(_, _)
KeptFrom(records, i) ==
    IF i > Len(records) THEN <<>>
    ELSE (IF HasStationCode(records[i]) THEN <<i>> ELSE <<>>) \o KeptFrom(records, i + 1)

Kept == KeptFrom(RecordsOf(raw), 1)

Dropped == {i \in 1..Len(RecordsOf(raw)) : ~HasStationCode(RecordsOf(raw)[i])}

\* The source fields of the emitted rows: row k comes from the k-th record
\* that holds a station code.
SourceRows ==
    LET records == RecordsOf(raw)
        kept == KeptFrom(records, 1)
    IN  [k \in 1..Len(kept) |-> SourceFields(records[kept[k]])]

\* The calls of transform_data that returned.
ReturnedCalls == {k \in 1..Len(calls) : ~calls[k].out.raised}

StationsOf(k) == calls[k].out.value[1]
AvailabilityOf(k) == calls[k].out.value[2]

\* C1: a record whose station code is absent or empty gives no station row
\* and no availability row, and every other record gives one of each: both
\* returned sequences hold exactly the records with a station code, in order.
C1_DropsExactlyMissingCode ==
    LET src == SourceRows
    IN  \A k \in ReturnedCalls :
            /\ Len(StationsOf(k)) = Len(src)
            /\ Len(AvailabilityOf(k)) = Len(src)
            /\ \A j \in 1..Len(src) :
                  /\ StationsOf(k)[j].station_id = src[j]["stationcode"]
                  /\ AvailabilityOf(k)[j].station_id = src[j]["stationcode"]

\* A call returned on a snapshot that holds a record without "stationcode",
\* a record with an empty one, and a record with a station code.
C1_Witness ==
    LET records == RecordsOf(raw)
    IN  /\ ReturnedCalls # {}
        /\ Kept # <<>>
        /\ \E i \in Dropped : "stationcode" \notin DOMAIN SourceFields(records[i])
        /\ \E i \in Dropped :
              /\ "stationcode" \in DOMAIN SourceFields(records[i])
              /\ SourceFields(records[i])["stationcode"] = PyStr("")

\* C2 as the spec states it: the call returns, with the two sequences, a skip
\* count equal to the number of records dropped for a missing station code.
C2_ReturnsSkipCount ==
    \A k \in ReturnedCalls :
        /\ Len(calls[k].out.value) = 3
        /\ calls[k].out.value[3] = Cardinality(Dropped)

\* A record is well formed when it holds a station code and a coordinate
\* pair that is absent or a list.
WellFormed(record) ==
    /\ HasStationCode(record)
    /\ \/ "coordonnees_geo" \notin DOMAIN SourceFields(record)
       \/ SourceFields(record)["coordonnees_geo"].t = "list"

\* C3 as the spec states it: no call raises, whatever malformed entry the
\* snapshot holds, and the rows of its well-formed records are emitted.
C3_NeverRaises ==
    LET records == RecordsOf(raw)
    IN  \A k \in 1..Len(calls) :
            /\ ~calls[k].out.raised
            /\ \A i \in 1..Len(records) :
                  WellFormed(records[i]) =>
                      \E j \in 1..Len(StationsOf(k)) :
                          StationsOf(k)[j].station_id
                              = SourceFields(records[i])["stationcode"]

\* The flag is set to the token "OUI" in the source fields.
IsYes(fields, flag) == flag \in DOMAIN fields /\ fields[flag] = PyStr("OUI")

\* C4: in every emitted availability row each of the three flags is true
\* exactly when the source field equals "OUI", false for any other value and
\* when the field is absent.
C4_FlagTrueIffOui ==
    LET src == SourceRows
    IN  \A k \in ReturnedCalls : \A j \in 1..Len(AvailabilityOf(k)) :
            /\ AvailabilityOf(k)[j].is_installed = IsYes(src[j], "is_installed")
            /\ AvailabilityOf(k)[j].is_renting = IsYes(src[j], "is_renting")
            /\ AvailabilityOf(k)[j].is_returning = IsYes(src[j], "is_returning")

\* Rows were emitted for a flag equal to "OUI", for a flag absent, and for a
\* flag holding another value ("oui").
C4_Witness ==
    LET src == SourceRows
    IN  \E k \in ReturnedCalls : \E a, b, c \in 1..Len(AvailabilityOf(k)) :
            /\ AvailabilityOf(k)[a].is_installed /\ ~AvailabilityOf(k)[a].is_returning
            /\ "is_installed" \notin DOMAIN src[b] /\ ~AvailabilityOf(k)[b].is_installed
            /\ "is_installed" \in DOMAIN src[c]
            /\ src[c]["is_installed"] = PyStr("oui")
            /\ ~AvailabilityOf(k)[c].is_installed

\* The coordinate pair of the source record is absent or holds i elements.
CoordsAbsent(fields) == "coordonnees_geo" \notin DOMAIN fields
CoordsOfLen(fields, i) ==
    /\ "coordonnees_geo" \in DOMAIN fields
    /\ fields["coordonnees_geo"].t = "list"
    /\ Len(fields["coordonnees_geo"].v) = i

\* C5 as the spec states it: a coordinate pair that is absent or shorter than
\* 2 elements gives latitude 0 and longitude 0, both.
C5_ShortPairBothZero ==
    LET src == SourceRows
    IN  \A k \in ReturnedCalls : \A j \in 1..Len(StationsOf(k)) :
            (CoordsAbsent(src[j]) \/ CoordsOfLen(src[j], 0) \/ CoordsOfLen(src[j], 1)) =>
                /\ StationsOf(k)[j].latitude = PyInt(0)
                /\ StationsOf(k)[j].longitude = PyInt(0)

\* C5, amended: an absent or empty pair gives latitude 0 and longitude 0; a
\* pair of exactly one element gives that element as latitude and longitude 0.
C5_ShortPairDefaultsPerElement ==
    LET src == SourceRows
    IN  \A k \in ReturnedCalls : \A j \in 1..Len(StationsOf(k)) :
            /\ (CoordsAbsent(src[j]) \/ CoordsOfLen(src[j], 0)) =>
                  /\ StationsOf(k)[j].latitude = PyInt(0)
                  /\ StationsOf(k)[j].longitude = PyInt(0)
            /\ CoordsOfLen(src[j], 1) =>
                  /\ StationsOf(k)[j].latitude = src[j]["coordonnees_geo"].v[1]
                  /\ StationsOf(k)[j].longitude = PyInt(0)

\* Station rows were emitted for an absent pair, an empty pair and a pair of
\* one element.
C5_Witness ==
    LET src == SourceRows
    IN  \E k \in ReturnedCalls : \E a, b, c \in 1..Len(StationsOf(k)) :
            /\ CoordsAbsent(src[a])
            /\ CoordsOfLen(src[b], 0)
            /\ CoordsOfLen(src[c], 1)
            /\ StationsOf(k)[c].latitude # PyInt(0)

\* C6 as the spec states it: every two calls on the same snapshot return the
\* same thing, values and order, also when a duedate is absent or unparsable.
C6_TwoCallsIdentical ==
    \A j, k \in 1..Len(calls) : calls[j].out = calls[k].out

\* The event time of the source record is one of the dates of the model that
\* datetime.fromisoformat reads, once "+00:00" is stripped.
DueParses(fields) ==
    /\ "duedate" \in DOMAIN fields
    /\ fields["duedate"] \in
          {PyStr("2024-01-15T10:30:00+00:00"), PyStr("2024-01-15T10:25:00+00:00"),
           PyStr("2024-01-15T10:30:00"), PyStr("2024-01-15T10:25:00"),
           PyStr("2024-01-15T12:30:00+02:00")}

\* An availability row without its event time.
WithoutLastReported(row) == [f \in DOMAIN row \ {"last_reported"} |-> row[f]]

\* C6, amended: two calls on the same snapshot both raise the same exception,
\* or both return: the same station sequence, in the order of the source
\* records, and availability sequences equal in order and in every field but
\* last_reported; last_reported is equal too where the duedate parses, and
\* where it is absent or unparsable it is the naive time datetime.utcnow()
\* showed when the call processed the record, a reading of its own for every
\* such record of every call: two of these rows carry the same time only
\* when their readings happened to agree.
C6_DeterministicButFallbackTime ==
    LET src == SourceRows
        kept == Kept
    IN  \A j, k \in 1..Len(calls) :
            /\ calls[j].out.raised = calls[k].out.raised
            /\ calls[j].out.raised => calls[j].out = calls[k].out
            /\ ~calls[j].out.raised =>
                  /\ StationsOf(j) = StationsOf(k)
                  /\ Len(StationsOf(j)) = Len(src)
                  /\ Len(AvailabilityOf(j)) = Len(AvailabilityOf(k))
                  /\ \A r \in 1..Len(AvailabilityOf(j)) :
                        /\ StationsOf(j)[r].station_id = src[r]["stationcode"]
                        /\ WithoutLastReported(AvailabilityOf(j)[r])
                              = WithoutLastReported(AvailabilityOf(k)[r])
                        /\ DueParses(src[r]) =>
                              /\ AvailabilityOf(j)[r].last_reported
                                    = AvailabilityOf(k)[r].last_reported
                              /\ AvailabilityOf(j)[r].last_reported.ts < 0
                        /\ ~DueParses(src[r]) =>
                              /\ AvailabilityOf(j)[r].last_reported
                                    = UtcNow(calls[j].at[kept[r]])
                              /\ (AvailabilityOf(j)[r].last_reported
                                       = AvailabilityOf(k)[r].last_reported)
                                    <=> calls[j].at[kept[r]] = calls[k].at[kept[r]]

\* Two calls returned on a snapshot with a record whose duedate parses and
\* two records whose duedate does not: their results differ in the time of a
\* fallback row, and the two fallback rows of the first call carry different
\* times.
C6_Witness ==
    LET src == SourceRows
    IN  /\ Cardinality(ReturnedCalls) >= 2
        /\ \E a, b, c \in 1..Len(src) :
              /\ DueParses(src[a])
              /\ "duedate" \in DOMAIN src[b] /\ ~DueParses(src[b])
              /\ c # b /\ ~DueParses(src[c])
              /\ AvailabilityOf(1)[b].last_reported # AvailabilityOf(1)[c].last_reported
              /\ AvailabilityOf(1)[b].last_reported # AvailabilityOf(2)[b].last_reported
              /\ AvailabilityOf(1)[c].last_reported = AvailabilityOf(2)[c].last_reported

\* The last two calls were calls of operation op with the same non-empty
\* list of rows, and both returned.
CalledTwice(op) ==
    /\ prev.op = op /\ last.op = op
    /\ ~prev.raised /\ ~last.raised
    /\ prev.rows = last.rows /\ last.rows # <<>>

\* The rows of a stations table for one station_id.
RowsOfStation(table, id) == {r \in table : r.station_id = id}

\* A stations row carries the values of row s of a list.
CarriesValues(r, s) ==
    /\ r.name = s.name /\ r.latitude = s.latitude /\ r.longitude = s.longitude
    /\ r.capacity = s.capacity /\ r.arrondissement = s.arrondissement
    /\ r.code_insee = s.code_insee

\* C7: after load_stations_to_postgres was called twice with the same rows,
\* the stations table holds exactly one row per station_id, the rows of the
\* list carry the values of the list, their created_at is what it was after
\* the first call and their updated_at is later than after the first call.
C7_UpsertIdempotent ==
    CalledTwice("load_stations_to_postgres") =>
        /\ \A r1, r2 \in db.stations : r1.station_id = r2.station_id => r1 = r2
        /\ \A i \in 1..Len(last.rows) :
              LET s == last.rows[i]
                  after == RowsOfStation(db.stations, s.station_id)
                  between == RowsOfStation(last.before.stations, s.station_id)
              IN  /\ Cardinality(after) = 1
                  /\ Cardinality(between) = 1
                  /\ \A r \in after : \A m \in between :
                        /\ CarriesValues(r, s)
                        /\ r.created_at = m.created_at
                        /\ r.updated_at > m.updated_at

\* The fact rows of a table that store row a of a list.
CopiesOf(table, a) == {r \in table : r = FactRow(a, r.id, r.ingested_at)}

\* The number of times row a occurs in a list.
Occurrences(rows, a) == Cardinality({i \in 1..Len(rows) : rows[i] = a})

\* C8: a call of load_availability_to_postgres that returns adds one fact row
\* per row of its list, each under an id of its own; no call of a load
\* operation changes or removes a stored fact row; two calls with the same
\* rows store every row of the list twice.
C8_AppendCumulative ==
    /\ \A r1, r2 \in db.availability : r1.id = r2.id => r1 = r2
    /\ last.op # "none" => last.before.availability \subseteq db.availability
    /\ (last.op = "load_availability_to_postgres" /\ ~last.raised) =>
          /\ Cardinality(db.availability)
                = Cardinality(last.before.availability) + Len(last.rows)
          /\ \A i \in 1..Len(last.rows) :
                Cardinality(CopiesOf(db.availability \ last.before.availability,
                                     last.rows[i]))
                    = Occurrences(last.rows, last.rows[i])
    /\ CalledTwice("load_availability_to_postgres") =>
          LET first == last.before.availability \ prev.before.availability
              second == db.availability \ last.before.availability
          IN  /\ first \cap second = {}
              /\ Cardinality(first) = Len(last.rows)
              /\ Cardinality(second) = Len(last.rows)
              /\ \A i \in 1..Len(last.rows) :
                    Cardinality(CopiesOf(db.availability \ prev.before.availability,
                                         last.rows[i]))
                        = 2 * Occurrences(last.rows, last.rows[i])

\* The same two availability rows were inserted twice.
C8_Witness ==
    /\ CalledTwice("load_availability_to_postgres")
    /\ Len(last.rows) = 2
    /\ Cardinality(db.availability) >= 4

LoadOperations == {"load_stations_to_postgres", "load_availability_to_postgres"}

\* C9: a load operation called with an empty list returns 0, opens no
\* connection, sends no statement and leaves both tables as they were; called
\* with a non-empty list that it writes, it returns the length of the list.
C9_EmptyListIsNoOp ==
    last.op \in LoadOperations =>
        /\ last.rows = <<>> =>
              /\ ~last.raised /\ last.ret = 0
              /\ last.opened = 0 /\ last.executed = 0 /\ ~last.committed
              /\ db.stations = last.before.stations
              /\ db.availability = last.before.availability
              /\ db.serial = last.before.serial
        /\ (last.rows # <<>> /\ ~last.raised) =>
              /\ last.committed
              /\ last.ret = Len(last.rows)

\* Both load operations were called with an empty list, on a store whose
\* tables hold rows.
C9_Witness ==
    /\ prev.op = "load_availability_to_postgres" /\ prev.rows = <<>>
    /\ last.op = "load_stations_to_postgres" /\ last.rows = <<>>
    /\ db.stations # {}

\* ------------------------------------------------------------------- runs
\* The run of DAG run d under way, or its last one, has met an empty
\* snapshot store: the store is append-only, so it was empty since the run
\* started.
RunOnEmptyStore(d) == run[d].pc # "idle" /\ mongo = <<>>

\* The operations of a run that work on the relational store.
SinkOperations ==
    {"init_postgres_tables", "load_stations_to_postgres",
     "load_availability_to_postgres"}

Invoked(d, op) == \E i \in 1..Len(run[d].ops) : run[d].ops[i] = op

IsPrefix(s, t) == Len(s) <= Len(t) /\ \A i \in 1..Len(s) : s[i] = t[i]

\* C10 as stated: on an empty snapshot store a run of transform_and_load does
\* not raise, ends with the "no data" result, and invokes neither
\* transform_data nor any operation of the relational sink, the schema
\* bootstrap included.
C10_NoDataInvokesNothing ==
    \A d \in DagRuns :
        RunOnEmptyStore(d) =>
            /\ run[d].pc # "raised"
            /\ run[d].pc = "returned" => run[d].result = NoDataResult
            /\ ~Invoked(d, "transform_data")
            /\ \A op \in SinkOperations : ~Invoked(d, op)

\* C10, amended: on an empty snapshot store a run first invokes the schema
\* bootstrap and then reads the snapshot store, and nothing else: neither
\* transform_data nor the station upsert nor the availability insert is
\* invoked, and no row is written.  A run that returns returns the "no data"
\* result; a run that raises does so in the bootstrap or in the read.
C10_NoDataAfterBootstrap ==
    \A d \in DagRuns :
        RunOnEmptyStore(d) =>
            /\ IsPrefix(run[d].ops, <<"init_postgres_tables", "get_latest_from_mongodb">>)
            /\ run[d].pc \in {"init", "init_statement", "init_commit", "fetch",
                             "returned", "raised", "killed"}
            /\ run[d].pc = "returned" =>
                  /\ run[d].result = NoDataResult
                  /\ run[d].ops = <<"init_postgres_tables", "get_latest_from_mongodb">>
                  /\ db.tables
            /\ run[d].pc = "raised" =>
                  run[d].exc \in {"OperationalError", "DatabaseError",
                                  "ServerSelectionTimeoutError"}
            /\ db.stations = {} /\ db.availability = {}

\* A run on an empty snapshot store has returned "no data", after bootstrap
\* and read.
C10_Witness ==
    \E d \in DagRuns :
        /\ RunOnEmptyStore(d)
        /\ run[d].pc = "returned"
        /\ run[d].result = NoDataResult
        /\ run[d].ops = <<"init_postgres_tables", "get_latest_from_mongodb">>

\* The snapshot the run of DAG run d read yields no station: transform_data
\* returns, with an empty stations list (the clock plays no part in that).
RunOnZeroStations(d) ==
    /\ run[d].raw_doc # PyNone
    /\ LET clock == [i \in 1..Len(RecordsOf(run[d].raw_doc)) |-> 0]
           t == TransformData(run[d].raw_doc, clock)
       IN  ~t.raised /\ t.value[1] = <<>>

\* A step of a run that has not reached its loads, or that read a snapshot
\* yielding no station, leaves the rows of both tables as they are (the other
\* runs write rows in steps of their own).
RowsUnchanged ==
    \A d \in DOMAIN run :
        (/\ run'[d] # run[d]
         /\ \/ run[d].pc \in {"init", "init_statement", "init_commit", "fetch",
                            "transform"}
            \/ RunOnZeroStations(d)) =>
            /\ db'.stations = db.stations
            /\ db'.availability = db.availability

\* What C11 as stated says of every state.
NoStationsNoSink ==
    \A d \in DagRuns :
        RunOnZeroStations(d) =>
            /\ run[d].pc # "raised"
            /\ run[d].pc = "returned" => run[d].result = NoStationsResult
            /\ \A op \in SinkOperations : ~Invoked(d, op)

\* C11 as stated: when the latest snapshot yields zero stations the run
\* returns the "no stations" result and the relational sink is not invoked,
\* neither schema bootstrap nor station upsert nor availability insert, and
\* both tables are unchanged.
C11_NoStationsInvokesNoSink == []NoStationsNoSink /\ [][RowsUnchanged]_vars

\* What C11, amended, says of every state.
NoStationsNoLoad ==
    \A d \in DagRuns :
        RunOnZeroStations(d) =>
            /\ run[d].pc \in {"transform", "returned", "killed"}
            /\ IsPrefix(run[d].ops, <<"init_postgres_tables", "get_latest_from_mongodb",
                                      "transform_data">>)
            /\ IsPrefix(<<"init_postgres_tables", "get_latest_from_mongodb">>, run[d].ops)
            /\ run[d].pc = "returned" =>
                  /\ run[d].result = NoStationsResult
                  /\ Invoked(d, "transform_data")
            /\ ~Invoked(d, "load_stations_to_postgres")
            /\ ~Invoked(d, "load_availability_to_postgres")

\* C11, amended: when the latest snapshot yields zero stations the run has
\* invoked the schema bootstrap, the read and transform_data, in that order
\* and nothing else; it returns the "no stations" result without raising;
\* neither station upsert nor availability insert is invoked and no step of
\* the run changes the rows of either table.
C11_NoStationsAfterBootstrap == []NoStationsNoLoad /\ [][RowsUnchanged]_vars

\* A run has returned "no stations" on a snapshot whose records were all
\* skipped.
C11_Witness ==
    \E d \in DagRuns :
        /\ RunOnZeroStations(d)
        /\ run[d].pc = "returned"
        /\ run[d].result = NoStationsResult
        /\ run[d].ops = <<"init_postgres_tables", "get_latest_from_mongodb",
                          "transform_data">>
        /\ RecordsOf(run[d].raw_doc) # <<>>

\* A run has returned "no stations" on a snapshot without records.
C11_WitnessEmpty ==
    \E d \in DagRuns :
        /\ RunOnZeroStations(d)
        /\ run[d].pc = "returned"
        /\ RecordsOf(run[d].raw_doc) = <<>>

\* ------------------------------------------------------- order of the loads
\* Every station of the rows the run of DAG run d transformed has its row in
\* the stations table.
StationsOfRunStored(d) ==
    \A i \in 1..Len(run[d].stations) :
        \E r \in db.stations : r.station_id = run[d].stations[i].station_id

\* C12: every station_availability row has a station_id of a stations row, in
\* every state of the store, whatever failed or was terminated and across
\* runs, overlapping ones included; and the availability insert is invoked
\* only in a run whose station upsert was invoked before it, returned and
\* left every station of the run committed.
C12_FactsReferenceStations ==
    /\ \A f \in db.availability : HasStation(db.stations, f.station_id)
    /\ \A d \in DagRuns :
          (run[d].pc = "load_availability"
               \/ Invoked(d, "load_availability_to_postgres")) =>
              /\ IsPrefix(<<"init_postgres_tables", "get_latest_from_mongodb",
                            "transform_data", "load_stations_to_postgres">>, run[d].ops)
              /\ run[d].stations # <<>>
              /\ StationsOfRunStored(d)
              /\ "stations_loaded" \in DOMAIN run[d].result

\* A run was terminated between its two loads while another run stored
\* facts: the stations of the run are committed, its facts are not.
C12_Witness ==
    \E d, e \in DagRuns :
        /\ d # e
        /\ run[d].pc = "killed"
        /\ run[d].ops = <<"init_postgres_tables", "get_latest_from_mongodb",
                          "transform_data", "load_stations_to_postgres">>
        /\ "stations_loaded" \in DOMAIN run[d].result
        /\ run[e].pc = "returned" /\ "availability_records_loaded" \in DOMAIN run[e].result
        /\ db.availability # {}
        /\ StationsOfRunStored(d)

\* ------------------------------------------------------ atomicity of a load
\* The rows of the list of the last call whose station has a row written by
\* that call (a row the table did not hold before the call).
StationsWritten ==
    {i \in 1..Len(last.rows) :
        \E r \in db.stations \ last.before.stations :
            r.station_id = last.rows[i].station_id}

\* The rows of the list of the last call that the stations table holds: a
\* row of their station that carries their values (a row the call rewrote
\* with the values and the times it had is a row it holds, and is not among
\* StationsWritten).
StationsHeld ==
    {i \in 1..Len(last.rows) :
        \E r \in db.stations :
            r.station_id = last.rows[i].station_id /\ CarriesValues(r, last.rows[i])}

\* The fact rows written by the last call.
FactsWritten == db.availability \ last.before.availability

\* C13: after a call of load_stations_to_postgres or
\* load_availability_to_postgres, whether it returned, raised while writing
\* or was terminated, the tables hold every row of its list when the call
\* committed and are as they were before the call when it did not: never some
\* rows of the list without the others.
C13_AllOrNothing ==
    /\ last.op = "load_stations_to_postgres" =>
          /\ StationsWritten # {} => StationsHeld = 1..Len(last.rows)
          /\ last.committed => StationsHeld = 1..Len(last.rows)
          /\ ~last.committed => db.stations = last.before.stations
          /\ db.availability = last.before.availability
    /\ last.op = "load_availability_to_postgres" =>
          /\ Cardinality(FactsWritten) \in {0, Len(last.rows)}
          /\ last.committed =>
                /\ Cardinality(FactsWritten) = Len(last.rows)
                /\ \A i \in 1..Len(last.rows) : CopiesOf(FactsWritten, last.rows[i]) # {}
          /\ ~last.committed => db.availability = last.before.availability
          /\ db.stations = last.before.stations

\* A call with a list of two pages raised on its second statement, after the
\* first was executed, and left the table as it was.
C13_Witness ==
    /\ last.op = "load_availability_to_postgres"
    /\ Len(last.rows) > PageSize
    /\ last.raised /\ last.exc = "ForeignKeyViolation"
    /\ last.executed = 2
    /\ FactsWritten = {}

\* A call was terminated after its statements and before its commit.
C13_WitnessKilled ==
    /\ last.op = "load_availability_to_postgres"
    /\ last.exc = "Killed" /\ ~last.committed
    /\ Len(last.rows) > PageSize
    /\ last.executed = 2
    /\ FactsWritten = {}

\* A station upsert of two pages raised on its second statement and left the
\* table as it was.
C13_WitnessStations ==
    /\ last.op = "load_stations_to_postgres"
    /\ last.exc = "CardinalityViolation"
    /\ last.executed = 2
    /\ StationsWritten = {}

\* ------------------------------------------------------ failures and retries
\* The run of DAG run d ended with an exception or was terminated.
HardFailure(d) == run[d].pc \in {"raised", "killed"}

\* What holds of the attempts in every state.
AttemptsBounded ==
    \A d \in DagRuns :
        /\ task[d].try <= Retries + 1
        /\ task[d].state = "running" => run[d].pc \in RunSteps
        /\ task[d].state = "success" => run[d].pc = "returned"
        /\ (task[d].via = "dag" /\ run[d].pc = "returned") => task[d].state = "success"
        /\ task[d].state = "up_for_retry" =>
              HardFailure(d) /\ task[d].try <= Retries /\ task[d].delay <= RetryDelay
        /\ task[d].state = "failed" => HardFailure(d) /\ task[d].try = Retries + 1
        /\ (task[d].via = "dag" /\ HardFailure(d)) =>
              task[d].state = IF task[d].try <= Retries THEN "up_for_retry" ELSE "failed"
        /\ run[d].pc = "raised" =>
              /\ run[d].exc # ""
              /\ "error" \notin DOMAIN run[d].result
              /\ "transformation_time" \notin DOMAIN run[d].result
        /\ \A i, j \in 1..Len(run[d].ops) : i < j => run[d].ops[i] # run[d].ops[j]

\* What holds of every step: a failed attempt waits the whole delay, the same
\* after every attempt, and a retry starts only when the delay has passed; a
\* run that has ended executes nothing more, and a task that succeeded or was
\* marked failed is never started again.
RetrySteps ==
    \A d \in DOMAIN task :
        /\ (task[d].state = "running" /\ task'[d].state = "up_for_retry") =>
              task'[d].delay = RetryDelay
        /\ (task[d].state = "up_for_retry" /\ task'[d].state = "running") =>
              task[d].delay = 0 /\ task'[d].try = task[d].try + 1
        /\ task'[d].try # task[d].try => task[d].state \in {"scheduled", "up_for_retry"}
        /\ (run[d].pc \in {"returned", "raised", "killed"}
                /\ task'[d].try = task[d].try) => run'[d] = run[d]

\* C14: an exception raised in a stage leaves transform_and_load as an
\* exception (no result is returned), no stage is executed twice in one run,
\* a failed attempt is retried after the fixed delay at most `retries` = 2
\* times and the task is then marked failed, and an attempt that returns a
\* value, the soft results included, is a success and is never retried.
C14_FailuresPropagateBoundedRetry == []AttemptsBounded /\ [][RetrySteps]_vars

\* The task was marked failed after its third attempt raised.
C14_Witness ==
    \E d \in DagRuns :
        /\ task[d].state = "failed"
        /\ task[d].try = Retries + 1
        /\ run[d].pc = "raised"

\* An attempt that returned the soft "no stations" result is a success of the
\* first attempt.
C14_WitnessSoft ==
    \E d \in DagRuns :
        /\ task[d].state = "success"
        /\ task[d].try = 1
        /\ run[d].result = NoStationsResult

\* ------------------------------------------------------------- connections
\* C15 as stated: every connection an operation opened is closed when the
\* operation is left, by return or by exception: after a run that returned or
\* raised, and after every call of save_to_mongodb, as many connections were
\* closed as were opened.
C15_ConnectionsClosed ==
    /\ \A d \in DagRuns :
          run[d].pc \in {"returned", "raised"} => run[d].opened = run[d].closed
    /\ (\A d \in DagRuns : extract[d].state # "running") =>
          saves.opened = saves.closed

\* A run raised in an operation that had opened a connection, and the
\* connection was not closed.
C15_OpenAfterFailure ==
    \E d \in DagRuns :
        /\ run[d].pc = "raised"
        /\ run[d].exc \in {"DatabaseError", "ServerSelectionTimeoutError",
                           "CardinalityViolation"}
        /\ run[d].opened = run[d].closed + 1

\* ------------------------------------------- a station repeated in one list
\* The last row of the list with the station_id of row i.
LastOfStation(rows, i) ==
    rows[CHOOSE j \in 1..Len(rows) :
            /\ rows[j].station_id = rows[i].station_id
            /\ \A k \in 1..Len(rows) : rows[k].station_id = rows[i].station_id => k <= j]

\* The run of DAG run d called the station upsert with a list that repeats a
\* station_id, and the environment let the call through.
UpsertOfRepeatedStation(d) ==
    /\ Invoked(d, "load_stations_to_postgres")
    /\ RepeatsStation(run[d].stations)
    /\ run[d].pc \notin {"stations_statement", "stations_commit", "killed"}
    /\ run[d].exc \notin {"OperationalError", "DatabaseError"}

\* C16 as stated: a station upsert whose list repeats a station_id succeeds,
\* leaves exactly one row of that station_id carrying the values of the last
\* such row of the list, and the run goes on to the availability insert.
C16_LastWriteWinsInBatch ==
    \A d \in DagRuns :
        UpsertOfRepeatedStation(d) =>
            /\ run[d].pc # "raised"
            /\ \A i \in 1..Len(run[d].stations) :
                  /\ Cardinality(RowsOfStation(db.stations,
                                               run[d].stations[i].station_id)) = 1
                  /\ \A r \in RowsOfStation(db.stations, run[d].stations[i].station_id) :
                        CarriesValues(r, LastOfStation(run[d].stations, i))

\* The station upsert of a run raised on a list that repeats a station_id,
\* and nothing was stored.
C16_UpsertRaises ==
    \E d \in DagRuns :
        /\ UpsertOfRepeatedStation(d)
        /\ run[d].pc = "raised"
        /\ run[d].exc = "CardinalityViolation"
        /\ ~Invoked(d, "load_availability_to_postgres")
        /\ db.stations = {}

====
